---------------------------- MODULE Spec2Model ----------------------------
(***************************************************************************)
(* Model of the polar-plant EC dashboard (src/main.py): the file locator,  *)
(* the two cached loaders, the halt check, the sidebar filter and the      *)
(* three tabs of one script run, re-run by the hosting surface.            *)
(*                                                                         *)
(* Strings are sequences of characters.  Hangul syllables are abbreviated  *)
(* to one lead consonant and one vowel: a precomposed syllable "HA" is one *)
(* character in NFC and the two characters "h","a" in NFD.  A school name  *)
(* is abbreviated to its first syllable.  Floats are exact rationals: a    *)
(* mean is the pair [sum, n], compared by cross-multiplication; n = 0 is   *)
(* NaN (the mean of an empty series).  Every input file parses and holds   *)
(* the columns the script reads; an environment row is its temperature,    *)
(* humidity, ph and ec, a growth row its fresh weight, leaf count and      *)
(* shoot length.  An uncaught exception ends the script run ("crashed").   *)
(***************************************************************************)
EXTENDS Integers, Sequences, FiniteSets, TLC

VARIABLES
    dir,                \* DATA_DIR in iteration order: sequence of entries
    keyword, found,     \* one call of find_file_by_keyword and its result
    env_cache,          \* st.cache_data store of load_environment_data
    growth_cache,       \* st.cache_data store of load_growth_data
    reads,              \* the script runs (render_no) in which a loader body ran
    render_no,          \* 1 in the first script run, 2 in every later one
    fs_changes,         \* files written or deleted since process start
    pc,                 \* position of the script run
    error,              \* "none", "stop", "KeyError", "ValueError"
    school_option, selected_schools,
    env_data, growth_data,
    overview_rows, total_plants, avg_temp, avg_hum, overview_optimal_ec,
    avg_rows, all_env,
    growth_all, ec_weight, ec_stats, optimal_ec, growth_export

locatorVars == <<keyword, found>>
cacheVars   == <<env_cache, growth_cache, reads>>
loadedVars  == <<env_data, growth_data>>
tab1Vars    == <<overview_rows, total_plants, avg_temp, avg_hum, overview_optimal_ec>>
tab2Vars    == <<avg_rows, all_env>>
tab3Vars    == <<growth_all, ec_weight, ec_stats, optimal_ec, growth_export>>
vars == <<dir, locatorVars, cacheVars, render_no, fs_changes, pc, error,
          school_option, selected_schools, loadedVars, tab1Vars, tab2Vars, tab3Vars>>

(***************************************************************************)
(* Bounds of the model                                                     *)
(***************************************************************************)
MaxNameLen    == 2   \* characters of a file name in the locator runs
MaxEnvRows    == 2   \* rows of one environment file
MaxGrowthRows == 2   \* rows of one workbook sheet
MaxFsChanges  == 1   \* file-system changes during one session

(***************************************************************************)
(* Fixed configuration                                                     *)
(***************************************************************************)
\* EC_TARGETS.keys() in insertion order: 송도고, 하늘고, 아라고, 동산고
SchoolOrder == <<"Songdo", "Haneul", "Ara", "Dongsan">>
Schools == {SchoolOrder[i] : i \in DOMAIN SchoolOrder}

EC_TARGETS == [s \in Schools |->
    CASE s = "Songdo"  -> 1
      [] s = "Haneul"  -> 2
      [] s = "Ara"     -> 4
      [] s = "Dongsan" -> 8]

\* The sidebar's first option, "전체"
ALL == "ALL"

\* growth_all["school"].map(EC_TARGETS) gives NaN for a key that is missing
NaN == -1

(***************************************************************************)
(* Unicode normalisation                                                   *)
(***************************************************************************)
Composed == {"SO", "HA", "AA", "DO", "HW", "SE"}
Plain == {"s", "o", "h", "a", "x", "d", "w", "e", "_", ".csv", ".xlsx"}
Chars == Composed \cup Plain

\* canonical decomposition of one character
DecompOf(c) ==
    CASE c = "SO" -> <<"s", "o">>
      [] c = "HA" -> <<"h", "a">>
      [] c = "AA" -> <<"x", "a">>
      [] c = "DO" -> <<"d", "o">>
      [] c = "HW" -> <<"h", "w">>
      [] c = "SE" -> <<"s", "e">>
      [] OTHER    -> <<c>>

Decomp == [c \in Chars |-> DecompOf(c)]
ComposedPairs == {Decomp[c] : c \in Composed}
ComposePair == [p \in ComposedPairs |-> CHOOSE c \in Composed : Decomp[c] = p]

RECURSIVE NFD(_)
NFD(s) == IF s = <<>> THEN <<>> ELSE Decomp[Head(s)] \o NFD(Tail(s))

RECURSIVE Compose(_)
Compose(s) ==
    IF Len(s) < 2 THEN s
    ELSE IF <<s[1], s[2]>> \in ComposedPairs
         THEN <<ComposePair[<<s[1], s[2]>>]>> \o Compose(SubSeq(s, 3, Len(s)))
         ELSE <<s[1]>> \o Compose(Tail(s))

NFC(s) == Compose(NFD(s))

\* variant: the stored name, not normalised
NormalizeRaw(name, form) == name

normalize_name(name, form) == IF form = "NFC" THEN NFC(name) ELSE NFD(name)

\* Python's `keyword in text` on strings
Contains(text, kw) ==
    \E i \in 0..(Len(text) - Len(kw)) : SubSeq(text, i + 1, i + Len(kw)) = kw

(***************************************************************************)
(* find_file_by_keyword                                                    *)
(***************************************************************************)
NotFound == [found |-> FALSE, path |-> <<>>]

Matches(p, kw) ==
    /\ p.is_file
    /\ \E form \in {"NFC", "NFD"} : Contains(normalize_name(p.name, form), kw)

RECURSIVE FindFrom(_, _, _)
FindFrom(directory, kw, i) ==
    IF i > Len(directory) THEN NotFound
    ELSE IF Matches(directory[i], kw)
         THEN [found |-> TRUE, path |-> <<directory[i]>>]
         ELSE FindFrom(directory, kw, i + 1)

find_file_by_keyword(directory, kw) == FindFrom(directory, kw, 1)


(***************************************************************************)
(* Tables, dicts and series                                                *)
(***************************************************************************)
\* Optional script locals: <<>> before the assignment, <<v>> after it
Unset == <<>>
Set(v) == <<v>>
IsSet(x) == x # <<>>
Val(x) == x[1]

RECURSIVE Concat(_)
Concat(frames) ==
    IF frames = <<>> THEN <<>> ELSE Head(frames) \o Concat(Tail(frames))

RECURSIVE Sum(_)
Sum(series) == IF series = <<>> THEN 0 ELSE Head(series) + Sum(Tail(series))

Column(df, col) == [i \in 1..Len(df) |-> df[i][col]]

\* Series.mean(): sum / n as an exact rational; n = 0 is NaN
Mean(series) == [sum |-> Sum(series), n |-> Len(series)]
MeanEq(a, b) == a.n > 0 /\ b.n > 0 /\ a.sum * b.n = b.sum * a.n
MeanLess(a, b) == a.n > 0 /\ b.n > 0 /\ a.sum * b.n < b.sum * a.n

\* dict as a sequence of items in insertion order
Values(d) == [i \in 1..Len(d) |-> d[i].df]
KeySet(d) == {d[i].key : i \in 1..Len(d)}
HasKey(d, k) == k \in KeySet(d)
Get(d, k) == d[CHOOSE i \in 1..Len(d) : d[i].key = k].df

(***************************************************************************)
(* Loaders                                                                 *)
(***************************************************************************)
SchoolName(school) ==
    CASE school = "Songdo"  -> <<"SO">>
      [] school = "Haneul"  -> <<"HA">>
      [] school = "Ara"     -> <<"AA">>
      [] school = "Dongsan" -> <<"DO">>

\* f"{school}_환경데이터"
EnvKeyword(school) == SchoolName(school) \o <<"_", "HW">>
\* "생육결과데이터"
GrowthKeyword == <<"SE">>

\* df["school"] = school on an environment table
TagEnv(df, school) ==
    [i \in 1..Len(df) |->
        [temperature |-> df[i].temperature, humidity |-> df[i].humidity,
         ph |-> df[i].ph, ec |-> df[i].ec, school |-> school]]

\* df["school"] = sheet on a growth table
TagGrowth(df, sheet) ==
    [i \in 1..Len(df) |->
        [weight |-> df[i].weight, leaves |-> df[i].leaves,
         shoot |-> df[i].shoot, school |-> sheet]]

\* pd.read_csv(file_path)
read_csv(file_path) == file_path.content

RECURSIVE LoadEnvFrom(_, _)
LoadEnvFrom(directory, i) ==
    IF i > Len(SchoolOrder) THEN <<>>
    ELSE LET school == SchoolOrder[i]
             file_path == find_file_by_keyword(directory, EnvKeyword(school))
         IN  IF ~file_path.found
             THEN LoadEnvFrom(directory, i + 1)
             ELSE <<[key |-> school,
                     df |-> TagEnv(read_csv(file_path.path[1]), school)]>>
                  \o LoadEnvFrom(directory, i + 1)

\* body of load_environment_data
LoadEnvBody(directory) == LoadEnvFrom(directory, 1)

NoneData == [is_none |-> TRUE, sheets |-> <<>>]

\* body of load_growth_data: None, or the dict sheet -> table in sheet order
LoadGrowthBody(directory) ==
    LET xlsx_path == find_file_by_keyword(directory, GrowthKeyword)
    IN  IF ~xlsx_path.found THEN NoneData
        ELSE LET xls == xlsx_path.path[1].content
             IN  [is_none |-> FALSE,
                  sheets |-> [i \in 1..Len(xls) |->
                                 [key |-> xls[i].name,
                                  df |-> TagGrowth(xls[i].rows, xls[i].name)]]]

NoCache == [hit |-> FALSE, value |-> <<>>]

\* variant: no cache, the body runs on every call
UncachedCall(cache, result) == [value |-> result, ran |-> TRUE]

\* @st.cache_data: the body runs on a miss only, a hit returns the stored value
CachedCall(cache, result) ==
    IF cache.hit THEN [value |-> cache.value, ran |-> FALSE]
    ELSE [value |-> result, ran |-> TRUE]

load_environment_data(cache, directory) == CachedCall(cache, LoadEnvBody(directory))
load_growth_data(cache, directory) == CachedCall(cache, LoadGrowthBody(directory))

(***************************************************************************)
(* Aggregation                                                             *)
(***************************************************************************)
\* variant: the halt check without `growth_data is None`
HaltsOnEnvOnly(env, growth) == env = <<>>

\* `not env_data or growth_data is None`
Halts(env, growth) == env = <<>> \/ growth.is_none

\* list(EC_TARGETS.keys()) if school_option == "전체" else [school_option]
SelectedSchools(option) == IF option = ALL THEN SchoolOrder ELSE <<option>>

\* EC_TARGETS.get(school)
TargetOrNone(school) == IF school \in Schools THEN EC_TARGETS[school] ELSE NaN

OverviewRows(growth) ==
    [i \in 1..Len(growth) |->
        [school |-> growth[i].key,
         ec_target |-> TargetOrNone(growth[i].key),
         n |-> Len(growth[i].df)]]

\* total_plants += len(df) over growth_data.items()
TotalPlants(growth) == Sum([i \in 1..Len(growth) |-> Len(growth[i].df)])

\* variant: the mean of the per-school means (their sum, then divided by
\* the number of schools that hold rows)
RECURSIVE MeanOfMeansFrom(_, _, _)
MeanOfMeansFrom(env, col, i) ==
    IF i > Len(env) THEN [sum |-> 0, n |-> 1]
    ELSE LET m == Mean(Column(env[i].df, col))
             r == MeanOfMeansFrom(env, col, i + 1)
         IN  IF m.n = 0 THEN r
             ELSE [sum |-> m.sum * r.n + r.sum * m.n, n |-> m.n * r.n]

MeanOfMeans(env, col) ==
    LET r == MeanOfMeansFrom(env, col, 1)
        k == Cardinality({i \in 1..Len(env) : env[i].df # <<>>})
    IN  [sum |-> r.sum, n |-> r.n * k]

\* pd.concat(env_data.values())[col].mean()
GlobalMean(env, col) == Mean(Column(Concat(Values(env)), col))

\* one row of avg_rows
SchoolAverages(school, df) ==
    [school |-> school,
     temperature |-> Mean(Column(df, "temperature")),
     humidity |-> Mean(Column(df, "humidity")),
     ph |-> Mean(Column(df, "ph")),
     ec |-> Mean(Column(df, "ec"))]

\* variant: the derived EC read from the school's measured `ec` column
DerivedECMeasured(school) ==
    IF HasKey(env_data, school) /\ Get(env_data, school) # <<>>
    THEN Get(env_data, school)[1].ec
    ELSE NaN

\* growth_all["school"].map(EC_TARGETS): one value
DerivedEC(school) == IF school \in Schools THEN EC_TARGETS[school] ELSE NaN

\* pd.concat(growth_data.values()) with the EC column added to the copy
GrowthAll(growth) ==
    LET cat == Concat(Values(growth))
    IN  [i \in 1..Len(cat) |->
            [weight |-> cat[i].weight, leaves |-> cat[i].leaves,
             shoot |-> cat[i].shoot, school |-> cat[i].school,
             EC |-> DerivedEC(cat[i].school)]]

RECURSIVE SortedSeq(_)
SortedSeq(S) ==
    IF S = {} THEN <<>>
    ELSE LET m == CHOOSE x \in S : \A y \in S : x <= y
         IN  <<m>> \o SortedSeq(S \ {m})

\* variant: groupby("EC", dropna=False)
GroupKeysWithNaN(df) == SortedSeq({df[i].EC : i \in 1..Len(df)})

\* groupby("EC"): the keys ascending, NaN keys dropped
GroupKeys(df) == SortedSeq({df[i].EC : i \in 1..Len(df)} \ {NaN})

Group(df, k) == SelectSeq(df, LAMBDA r : r.EC = k)

\* growth_all.groupby("EC")[col].mean()
GroupMean(df, col) ==
    LET ks == GroupKeys(df)
    IN  [i \in 1..Len(ks) |->
            [EC |-> ks[i], mean |-> Mean(Column(Group(df, ks[i]), col))]]

\* the leaf, shoot and size series of the comparison chart
GroupStats(df) ==
    LET ks == GroupKeys(df)
    IN  [i \in 1..Len(ks) |->
            [EC |-> ks[i],
             leaves |-> Mean(Column(Group(df, ks[i]), "leaves")),
             shoot |-> Mean(Column(Group(df, ks[i]), "shoot")),
             size |-> Len(Group(df, ks[i]))]]

\* variant: the label of the last maximum
RECURSIVE ArgMaxLast(_, _, _)
ArgMaxLast(series, i, best) ==
    IF i > Len(series) THEN best
    ELSE ArgMaxLast(series, i + 1,
                    IF MeanLess(series[i].mean, series[best].mean) THEN best ELSE i)

IdxMaxLast(series) == series[ArgMaxLast(series, 2, 1)].EC

RECURSIVE ArgMax(_, _, _)
ArgMax(series, i, best) ==
    IF i > Len(series) THEN best
    ELSE ArgMax(series, i + 1,
                IF MeanLess(series[best].mean, series[i].mean) THEN i ELSE best)

\* Series.idxmax() of a non-empty series: the label of the first maximum
IdxMax(series) == series[ArgMax(series, 2, 1)].EC

\* col4.metric("최적 EC", "2.0 (하늘고)")
OverviewOptimalEC == 2

(***************************************************************************)
(* Input universes                                                         *)
(***************************************************************************)
\* rows of an environment file: temperature, humidity, ph, ec
Row20 == [temperature |-> 20, humidity |-> 60, ph |-> 6, ec |-> 3]
Row30 == [temperature |-> 30, humidity |-> 40, ph |-> 7, ec |-> 5]
\* rows of a workbook sheet: 생중량(g), 잎 수(장), 지상부 길이(mm)
G5 == [weight |-> 5, leaves |-> 4, shoot |-> 30]
G9 == [weight |-> 9, leaves |-> 6, shoot |-> 50]

EnvRowValues == {Row20, Row30}
GrowthRowValues == {G5, G9}

\* tables of at most n rows; the rows of a file in ascending order of `col`
\* (no aggregate depends on the order of the rows within one file)
TablesOver(rows, col, n) ==
    {t \in UNION {[1..k -> rows] : k \in 0..n} :
        \A i \in 1..(Len(t) - 1) : t[i][col] <= t[i + 1][col]}
EnvTables == TablesOver(EnvRowValues, "temperature", MaxEnvRows)
GrowthTables == TablesOver(GrowthRowValues, "weight", MaxGrowthRows)

\* a sheet name outside the fixed school set
OtherSheet == "Sheet1"
\* the sheets a workbook of the growth runs may hold
SheetNames == {"Songdo", "Haneul", "Dongsan", OtherSheet}
Sheets == [name : SheetNames, rows : GrowthTables]

\* workbooks of one to three sheets, sheet names unique, in any order
Workbooks ==
    {w \in UNION {[1..k -> Sheets] : k \in 1..3} :
        \A i, j \in 1..Len(w) : i # j => w[i].name # w[j].name}

EnvFile(school, form, table) ==
    [name |-> normalize_name(EnvKeyword(school) \o <<".csv">>, form),
     is_file |-> TRUE, content |-> table]

GrowthFile(form, book) ==
    [name |-> normalize_name(GrowthKeyword \o <<".xlsx">>, form),
     is_file |-> TRUE, content |-> book]

\* envs: school -> <<>> (no file) or <<table>>; book: <<>> or <<workbook>>
MkDir(form, envs, book) ==
    Concat([i \in 1..Len(SchoolOrder) |->
               IF envs[SchoolOrder[i]] = <<>> THEN <<>>
               ELSE <<EnvFile(SchoolOrder[i], form, envs[SchoolOrder[i]][1])>>])
    \o (IF book = <<>> THEN <<>> ELSE <<GrowthFile(form, book[1])>>)

\* the workbooks of the session runs
BookHaneulBest ==
    <<[name |-> "Songdo", rows |-> <<G5>>], [name |-> "Haneul", rows |-> <<G9>>],
      [name |-> "Ara", rows |-> <<G5, G9>>], [name |-> "Dongsan", rows |-> <<G5>>]>>
BookDongsanBest ==
    <<[name |-> "Dongsan", rows |-> <<G9>>], [name |-> "Songdo", rows |-> <<G5>>]>>
BookUnmapped ==
    <<[name |-> OtherSheet, rows |-> <<G9>>]>>
SessionBooks == {BookHaneulBest, BookDongsanBest, BookUnmapped}
SessionEnvTables == {<<Row20>>, <<Row30, Row30>>}

(***************************************************************************)
(* The script run                                                          *)
(***************************************************************************)
Terminal == {"done", "halted", "crashed"}

ScriptStart ==
    /\ pc' = "load"
    /\ error' = "none"
    /\ selected_schools' = <<>>
    /\ env_data' = <<>>
    /\ growth_data' = NoneData
    /\ overview_rows' = Unset /\ total_plants' = Unset
    /\ avg_temp' = Unset /\ avg_hum' = Unset /\ overview_optimal_ec' = Unset
    /\ avg_rows' = Unset /\ all_env' = Unset
    /\ growth_all' = Unset /\ ec_weight' = Unset /\ ec_stats' = Unset
    /\ optimal_ec' = Unset /\ growth_export' = Unset

InitScript ==
    /\ pc = "load"
    /\ error = "none"
    /\ school_option = ALL
    /\ selected_schools = <<>>
    /\ env_data = <<>>
    /\ growth_data = NoneData
    /\ overview_rows = Unset /\ total_plants = Unset
    /\ avg_temp = Unset /\ avg_hum = Unset /\ overview_optimal_ec = Unset
    /\ avg_rows = Unset /\ all_env = Unset
    /\ growth_all = Unset /\ ec_weight = Unset /\ ec_stats = Unset
    /\ optimal_ec = Unset /\ growth_export = Unset
    /\ env_cache = NoCache /\ growth_cache = NoCache
    /\ reads = {}
    /\ render_no = 1
    /\ fs_changes = 0

\* lines 95-97: both loaders, through their caches
LoadData ==
    /\ pc = "load"
    /\ \E e \in {load_environment_data(env_cache, dir)} :
       \E g \in {load_growth_data(growth_cache, dir)} :
           /\ env_data' = e.value
           /\ growth_data' = g.value
           /\ env_cache' = [hit |-> TRUE, value |-> e.value]
           /\ growth_cache' = [hit |-> TRUE, value |-> g.value]
           /\ reads' = IF e.ran \/ g.ran THEN reads \cup {render_no} ELSE reads
    /\ pc' = "check"
    /\ UNCHANGED <<dir, locatorVars, render_no, fs_changes, error, school_option,
                   selected_schools, tab1Vars, tab2Vars, tab3Vars>>

\* lines 99-120: st.error + st.stop, or the sidebar filter
HaltCheck ==
    /\ pc = "check"
    /\ IF Halts(env_data, growth_data)
       THEN /\ error' = "stop"
            /\ pc' = "halted"
            /\ UNCHANGED selected_schools
       ELSE /\ selected_schools' = SelectedSchools(school_option)
            /\ pc' = "tab1"
            /\ UNCHANGED error
    /\ UNCHANGED <<dir, locatorVars, cacheVars, render_no, fs_changes, school_option,
                   loadedVars, tab1Vars, tab2Vars, tab3Vars>>

\* lines 130-161
Tab1 ==
    /\ pc = "tab1"
    /\ overview_rows' = Set(OverviewRows(growth_data.sheets))
    /\ total_plants' = Set(TotalPlants(growth_data.sheets))
    /\ avg_temp' = Set(GlobalMean(env_data, "temperature"))
    /\ avg_hum' = Set(GlobalMean(env_data, "humidity"))
    /\ overview_optimal_ec' = Set(OverviewOptimalEC)
    /\ pc' = "tab2"
    /\ UNCHANGED <<dir, locatorVars, cacheVars, render_no, fs_changes, error,
                   school_option, selected_schools, loadedVars, tab2Vars, tab3Vars>>

\* lines 166-240: env_data[school] raises KeyError for a school not loaded
Tab2 ==
    /\ pc = "tab2"
    /\ IF \E i \in 1..Len(selected_schools) : ~HasKey(env_data, selected_schools[i])
       THEN /\ error' = "KeyError"
            /\ pc' = "crashed"
            /\ UNCHANGED tab2Vars
       ELSE /\ avg_rows' = Set([i \in 1..Len(selected_schools) |->
                                   SchoolAverages(selected_schools[i],
                                                  Get(env_data, selected_schools[i]))])
            /\ all_env' = Set(Concat(Values(env_data)))
            /\ pc' = "tab3"
            /\ UNCHANGED error
    /\ UNCHANGED <<dir, locatorVars, cacheVars, render_no, fs_changes, school_option,
                   selected_schools, loadedVars, tab1Vars, tab3Vars>>

\* lines 245-346: idxmax of an empty series raises ValueError
Tab3 ==
    /\ pc = "tab3"
    /\ \E all \in {GrowthAll(growth_data.sheets)} :
       \E w \in {GroupMean(all, "weight")} :
           /\ growth_all' = Set(all)
           /\ ec_weight' = Set(w)
           /\ IF w = <<>>
              THEN /\ error' = "ValueError"
                   /\ pc' = "crashed"
                   /\ UNCHANGED <<ec_stats, optimal_ec, growth_export>>
              ELSE /\ optimal_ec' = Set(IdxMax(w))
                   /\ ec_stats' = Set(GroupStats(all))
                   /\ growth_export' = Set(all)
                   /\ pc' = "done"
                   /\ UNCHANGED error
    /\ UNCHANGED <<dir, locatorVars, cacheVars, render_no, fs_changes, school_option,
                   selected_schools, loadedVars, tab1Vars, tab2Vars>>

Options == {ALL} \cup Schools

\* the hosting surface runs the script again, with the selectbox's value
Rerun(option) ==
    /\ pc \in Terminal
    /\ school_option' = option
    /\ render_no' = 2
    /\ ScriptStart
    /\ UNCHANGED <<dir, locatorVars, cacheVars, fs_changes>>

\* the data directory changes between two script runs
DeleteFile(i) ==
    /\ pc \in Terminal
    /\ fs_changes < MaxFsChanges
    /\ i \in 1..Len(dir)
    /\ dir' = SubSeq(dir, 1, i - 1) \o SubSeq(dir, i + 1, Len(dir))
    /\ fs_changes' = fs_changes + 1
    /\ UNCHANGED <<locatorVars, cacheVars, render_no, pc, error, school_option,
                   selected_schools, loadedVars, tab1Vars, tab2Vars, tab3Vars>>

WriteFile(f) ==
    /\ pc \in Terminal
    /\ fs_changes < MaxFsChanges
    /\ f \notin {dir[i] : i \in 1..Len(dir)}
    /\ dir' = IF \E i \in 1..Len(dir) : dir[i].name = f.name
              THEN [i \in 1..Len(dir) |-> IF dir[i].name = f.name THEN f ELSE dir[i]]
              ELSE Append(dir, f)
    /\ fs_changes' = fs_changes + 1
    /\ UNCHANGED <<locatorVars, cacheVars, render_no, pc, error, school_option,
                   selected_schools, loadedVars, tab1Vars, tab2Vars, tab3Vars>>

WritableFiles ==
    {EnvFile(s, form, t) : s \in Schools, form \in {"NFC", "NFD"}, t \in SessionEnvTables}
    \cup {GrowthFile(form, b) : form \in {"NFC", "NFD"}, b \in SessionBooks}

Init ==
    /\ \E form \in {"NFC", "NFD"} :
       \E envs \in [Schools -> {<<>>, <<(<<Row20>>)>>}] :
       \E book \in {<<>>} \cup {<<b>> : b \in SessionBooks} :
          dir = MkDir(form, envs, book)
    /\ keyword = <<>> /\ found = Unset
    /\ InitScript

Next ==
    \/ LoadData
    \/ HaltCheck
    \/ Tab1
    \/ Tab2
    \/ Tab3
    \/ \E option \in Options : Rerun(option)
    \/ \E i \in 1..Len(dir) : DeleteFile(i)
    \/ \E f \in WritableFiles : WriteFile(f)

Spec == Init /\ [][Next]_vars

(***************************************************************************)
(* One script run over every environment directory                         *)
(***************************************************************************)
InitEnv ==
    /\ \E envs \in [Schools -> {<<>>} \cup {<<t>> : t \in EnvTables}] :
          dir = MkDir("NFD", envs, <<BookHaneulBest>>)
    /\ keyword = <<>> /\ found = Unset
    /\ InitScript

NextRender ==
    \/ LoadData
    \/ HaltCheck
    \/ Tab1
    \/ Tab2
    \/ Tab3

SpecEnv == InitEnv /\ [][NextRender]_vars

(***************************************************************************)
(* One script run over every growth workbook                               *)
(***************************************************************************)
GrowthRunEnvs ==
    [s \in Schools |->
        CASE s = "Songdo"  -> <<(<<Row20>>)>>
          [] s = "Haneul"  -> <<(<<Row30>>)>>
          [] s = "Ara"     -> <<(<<Row20, Row30>>)>>
          [] s = "Dongsan" -> <<(<<Row30, Row30>>)>>]

InitGrowth ==
    /\ \E b \in Workbooks : dir = MkDir("NFD", GrowthRunEnvs, <<b>>)
    /\ keyword = <<>> /\ found = Unset
    /\ InitScript

SpecGrowth == InitGrowth /\ [][NextRender]_vars

(***************************************************************************)
(* find_file_by_keyword alone, over every small directory and keyword      *)
(***************************************************************************)
LocatorChars == {"_", "h", "a", "HA"}
Strings(n) == UNION {[1..k -> LocatorChars] : k \in 1..n}
LocatorEntries ==
    [name : Strings(MaxNameLen), is_file : BOOLEAN, content : {<<>>}]
LocatorDirs == UNION {[1..k -> LocatorEntries] : k \in 0..2}

InitLocator ==
    /\ dir \in LocatorDirs
    /\ keyword \in Strings(2)
    /\ found = Unset
    /\ InitScript

Locate ==
    /\ found = Unset
    /\ keyword # <<>>
    /\ found' = Set(find_file_by_keyword(dir, keyword))
    /\ UNCHANGED <<dir, keyword, cacheVars, render_no, fs_changes, pc, error,
                   school_option, selected_schools, loadedVars,
                   tab1Vars, tab2Vars, tab3Vars>>

NextLocator == Locate

SpecLocator == InitLocator /\ [][NextLocator]_vars

(***************************************************************************)
(* Properties                                                              *)
(***************************************************************************)
\* the file names of the directory that hold kw in their NFC or NFD form
FileMatches(p, kw) ==
    p.is_file /\ (Contains(NFC(p.name), kw) \/ Contains(NFD(p.name), kw))
AnyFileMatches(kw) == \E i \in 1..Len(dir) : FileMatches(dir[i], kw)

Tab2HasRun == pc \in {"tab3", "done", "crashed"}

\* C1: with the growth workbook present and exactly one school's environment
\* file missing, a render under the default filter gets through the
\* environment view and yields the averages of the three loaded schools.
C1_PartialEnvRenders ==
    (Tab2HasRun /\ school_option = ALL /\ ~growth_data.is_none /\ Len(env_data) = 3)
    => /\ error # "KeyError"
       /\ IsSet(avg_rows)
       /\ {Val(avg_rows)[i].school : i \in 1..Len(Val(avg_rows))} = KeySet(env_data)

\* C2: with no file matching the growth keyword the growth loader returns
\* None, the run stops in the blocking error state and computes no aggregate.
C2_NoGrowthHalts ==
    /\ (pc # "load" /\ fs_changes = 0 /\ ~AnyFileMatches(GrowthKeyword))
       => growth_data = NoneData
    /\ (pc \notin {"load", "check"} /\ growth_data.is_none)
       => /\ pc = "halted"
          /\ error = "stop"
          /\ ~IsSet(overview_rows) /\ ~IsSet(total_plants)
          /\ ~IsSet(avg_temp) /\ ~IsSet(avg_hum) /\ ~IsSet(overview_optimal_ec)
          /\ ~IsSet(avg_rows) /\ ~IsSet(all_env)
          /\ ~IsSet(growth_all) /\ ~IsSet(ec_weight) /\ ~IsSet(ec_stats)
          /\ ~IsSet(optimal_ec) /\ ~IsSet(growth_export)

C2_Witness ==
    /\ pc = "halted"
    /\ growth_data.is_none
    /\ env_data # <<>>
    /\ ~AnyFileMatches(GrowthKeyword)

\* C3: if some file's name holds the keyword in its NFC or its NFD form, the
\* locator returns such a file of the directory; otherwise it returns None.
C3_LocatorFindsEitherForm ==
    IsSet(found) =>
        IF AnyFileMatches(keyword)
        THEN /\ Val(found).found
             /\ \E i \in 1..Len(dir) :
                   dir[i] = Val(found).path[1] /\ FileMatches(dir[i], keyword)
        ELSE Val(found) = NotFound

\* a file found although its stored name does not hold the keyword
C3_Witness ==
    /\ IsSet(found)
    /\ Val(found).found
    /\ ~Contains(Val(found).path[1].name, keyword)

\* C4: a selected school that is absent from the environment mapping does not
\* abort the render in the environment view.
C4_MissingSchoolDoesNotAbort ==
    (Tab2HasRun /\ \E i \in 1..Len(selected_schools) :
                       ~HasKey(env_data, selected_schools[i]))
    => pc # "crashed"

\* the sheets of growth_data that carry a fixed school's name and hold rows
RankedSheets ==
    {i \in 1..Len(growth_data.sheets) :
        growth_data.sheets[i].key \in Schools /\ growth_data.sheets[i].df # <<>>}
SheetMean(i) == Mean(Column(growth_data.sheets[i].df, "weight"))
SheetEC(i) == EC_TARGETS[growth_data.sheets[i].key]

\* C5: the optimal EC of the growth view is an EC level of maximum mean fresh
\* weight, and the lowest EC among the levels that tie on that maximum.
C5_OptimalIsLowestMax ==
    IsSet(optimal_ec) =>
        \E i \in RankedSheets :
            /\ SheetEC(i) = Val(optimal_ec)
            /\ \A j \in RankedSheets : ~MeanLess(SheetMean(i), SheetMean(j))
            /\ \A j \in RankedSheets :
                  MeanEq(SheetMean(i), SheetMean(j)) => SheetEC(i) <= SheetEC(j)

\* two levels tie on the maximum and the higher one comes first in the workbook
C5_Witness ==
    /\ IsSet(optimal_ec)
    /\ \E i, j \in RankedSheets :
          /\ i < j
          /\ SheetEC(i) > SheetEC(j)
          /\ MeanEq(SheetMean(i), SheetMean(j))
          /\ SheetEC(j) = Val(optimal_ec)
          /\ Len(growth_data.sheets[i].df) # Len(growth_data.sheets[j].df)

RECURSIVE TotalOf(_, _, _)
TotalOf(env, col, i) ==
    IF i > Len(env) THEN 0
    ELSE TotalOf(env, col, i + 1) + Sum(Column(env[i].df, col))
RECURSIVE RowsOf(_, _)
RowsOf(env, i) == IF i > Len(env) THEN 0 ELSE RowsOf(env, i + 1) + Len(env[i].df)

\* C6: the overview's mean temperature and mean humidity are the sum of all
\* loaded readings divided by the number of all loaded rows.
C6_GlobalMeanIsPopulationMean ==
    (IsSet(avg_temp) /\ IsSet(avg_hum)) =>
        /\ Val(avg_temp) = [sum |-> TotalOf(env_data, "temperature", 1),
                            n |-> RowsOf(env_data, 1)]
        /\ Val(avg_hum) = [sum |-> TotalOf(env_data, "humidity", 1),
                           n |-> RowsOf(env_data, 1)]

\* two rows at 20 and one row at 30 give 70/3, not the mean of means 25
C6_Witness ==
    /\ IsSet(avg_temp)
    /\ Len(env_data) = 2
    /\ Column(env_data[1].df, "temperature") = <<20, 20>>
    /\ Column(env_data[2].df, "temperature") = <<30>>
    /\ Val(avg_temp) = [sum |-> 70, n |-> 3]
    /\ ~MeanEq(Val(avg_temp), [sum |-> 25, n |-> 1])

RawEnv(df) ==
    [i \in 1..Len(df) |->
        [temperature |-> df[i].temperature, humidity |-> df[i].humidity,
         ph |-> df[i].ph, ec |-> df[i].ec]]
RawGrowth(df) ==
    [i \in 1..Len(df) |->
        [weight |-> df[i].weight, leaves |-> df[i].leaves, shoot |-> df[i].shoot]]
TaggedWith(df, s) == SelectSeq(df, LAMBDA r : r.school = s)
WorkbookFile == dir[CHOOSE i \in 1..Len(dir) : FileMatches(dir[i], GrowthKeyword)]

\* C7: a growth record of a fixed school has the derived EC EC_TARGETS[school];
\* the rows of the unified tables that carry a tag are the rows of the file or
\* sheet of that name.
C7_DerivedECFromTargets ==
    /\ IsSet(growth_all) =>
          /\ \A i \in 1..Len(Val(growth_all)) :
                Val(growth_all)[i].school \in Schools
                => Val(growth_all)[i].EC = EC_TARGETS[Val(growth_all)[i].school]
          /\ LET xls == WorkbookFile.content
             IN  \A k \in 1..Len(xls) :
                     RawGrowth(TaggedWith(Val(growth_all), xls[k].name)) = xls[k].rows
          /\ Len(Val(growth_all)) = TotalPlants(growth_data.sheets)
    /\ IsSet(all_env) =>
          /\ \A s \in Schools :
                \A i \in 1..Len(dir) :
                    FileMatches(dir[i], EnvKeyword(s))
                    => RawEnv(TaggedWith(Val(all_env), s)) = dir[i].content
          /\ Len(Val(all_env)) = RowsOf(env_data, 1)

\* a fixed school's record whose school measured another EC than its target
C7_Witness ==
    /\ IsSet(growth_all) /\ IsSet(all_env)
    /\ \E i \in 1..Len(Val(growth_all)) :
          /\ Val(growth_all)[i].school \in Schools
          /\ Val(growth_all)[i].EC = EC_TARGETS[Val(growth_all)[i].school]
          /\ Get(env_data, Val(growth_all)[i].school)[1].ec # Val(growth_all)[i].EC
    /\ \E s \in Schools : Len(TaggedWith(Val(all_env), s)) = 2

\* the rows of the sheets of the fixed schools with target EC e
MappedRows(e) ==
    Concat([i \in 1..Len(growth_data.sheets) |->
               IF /\ growth_data.sheets[i].key \in Schools
                  /\ EC_TARGETS[growth_data.sheets[i].key] = e
               THEN growth_data.sheets[i].df ELSE <<>>])

C9_LoadOnce ==
    /\ [](reads \subseteq {1})
    /\ [][/\ env_cache.hit => env_cache' = env_cache
          /\ growth_cache.hit => growth_cache' = growth_cache]_vars
    /\ [](pc # "load" => /\ env_data = env_cache.value
                         /\ growth_data = growth_cache.value)

\* a later run that finished on the stored tables after the files changed
C9_Witness ==
    /\ render_no = 2
    /\ pc = "done"
    /\ fs_changes > 0
    /\ reads = {1}
    /\ LoadEnvBody(dir) # env_data
    /\ env_data = env_cache.value

\* C10: in a finished render the overview's optimal EC is the growth view's.
C10_OverviewOptimalAgrees ==
    pc = "done" => Val(overview_optimal_ec) = Val(optimal_ec)

============================================================================
